---------------------------- MODULE Spec2Model ----------------------------
(***************************************************************************)
(* AerodynamicAccelerationPartial (tudat): the numerically differentiated  *)
(* partial of the aerodynamic acceleration w.r.t. the state of the body    *)
(* undergoing the acceleration, its signed accessors and its parameter     *)
(* and state-dependency lookups.                                           *)
(*                                                                         *)
(* Numbers are C++ doubles in the program.  They are modelled by a small   *)
(* binary floating-point format with the IEEE-754 rules the program relies *)
(* on (round to nearest, ties to even; gradual underflow; overflow to      *)
(* infinity; NaN unequal to everything, itself included).  A number of the *)
(* format is an integer n = m * 2^e with |m| < 2^Prec and 0 <= e <= MaxExp *)
(* (the unit is the spacing of the subnormal numbers); signed zeros are    *)
(* identified.                                                             *)
(***************************************************************************)
EXTENDS Integers, Sequences, FiniteSets, TLC

\* ------------------------------------------------------------------------
\* Bounds of the floating-point format.
\* ------------------------------------------------------------------------
Prec == 4
MaxExp == 3

RECURSIVE Pow2(_)
Pow2(k) == IF k <= 0 THEN 1 ELSE 2 * Pow2(k - 1)

MaxFinite == (Pow2(Prec) - 1) * Pow2(MaxExp)
PInf == MaxFinite + 1
NInf == 0 - PInf
NaN == MaxFinite + 2

Abs(x) == IF x < 0 THEN 0 - x ELSE x
Sgn(x) == IF x < 0 THEN 0 - 1 ELSE IF x > 0 THEN 1 ELSE 0

IsNaN(x) == x = NaN
IsInf(x) == x = PInf \/ x = NInf
IsFinite(x) == ~IsNaN(x) /\ ~IsInf(x)

\* The finite numbers of the format.
Representable(n) ==
    \E e \in 0..MaxExp : n % Pow2(e) = 0 /\ Abs(n) \div Pow2(e) < Pow2(Prec)

\* Smallest exponent e >= 0 with n/d < 2^(Prec+e)   (n >= 0, d > 0).
RECURSIVE ExpOf(_, _, _)
ExpOf(n, d, e) ==
    IF e > MaxExp \/ n < Pow2(Prec + e) * d THEN e ELSE ExpOf(n, d, e + 1)

\* n/d (n >= 0, d > 0) rounded to the nearest number of the format, ties to
\* the even significand; beyond the largest finite number: infinity.
RoundMag(n, d) ==
    LET e   == ExpOf(n, d, 0)
        ulp == Pow2(e) * d
        m   == n \div ulp
        r   == n - m * ulp
        up  == (2 * r > ulp) \/ (2 * r = ulp /\ m % 2 = 1)
        v   == (IF up THEN m + 1 ELSE m) * Pow2(e)
    IN  IF e > MaxExp \/ v > MaxFinite THEN PInf ELSE v

\* The rational n/d (d # 0) as a number of the format.
RoundRat(n, d) ==
    LET s == Sgn(n) * Sgn(d)
        v == RoundMag(Abs(n), Abs(d))
    IN  IF s < 0 THEN 0 - v ELSE v

FNeg(a) == IF IsNaN(a) THEN NaN ELSE 0 - a

FAdd(a, b) ==
    IF IsNaN(a) \/ IsNaN(b) THEN NaN
    ELSE IF IsInf(a) /\ IsInf(b) THEN (IF a = b THEN a ELSE NaN)
    ELSE IF IsInf(a) THEN a
    ELSE IF IsInf(b) THEN b
    ELSE RoundRat(a + b, 1)

FSub(a, b) == FAdd(a, FNeg(b))

FMul(a, b) ==
    IF IsNaN(a) \/ IsNaN(b) THEN NaN
    ELSE IF IsInf(a) \/ IsInf(b)
         THEN (IF a = 0 \/ b = 0 THEN NaN
               ELSE IF Sgn(a) * Sgn(b) > 0 THEN PInf ELSE NInf)
    ELSE RoundRat(a * b, 1)

FDiv(a, b) ==
    IF IsNaN(a) \/ IsNaN(b) THEN NaN
    ELSE IF IsInf(a) /\ IsInf(b) THEN NaN
    ELSE IF IsInf(a) THEN (IF Sgn(a) * Sgn(b) >= 0 THEN PInf ELSE NInf)
    ELSE IF IsInf(b) THEN 0
    ELSE IF b = 0 THEN (IF a = 0 THEN NaN ELSE IF a > 0 THEN PInf ELSE NInf)
    ELSE RoundRat(a, b)

\* operator== of double: NaN compares unequal to everything.
FEq(a, b) == ~IsNaN(a) /\ ~IsNaN(b) /\ a = b


\* ------------------------------------------------------------------------
\* Dimensions fixed by the program: Eigen::Vector6d, the 3-row blocks.
\* ------------------------------------------------------------------------
StateSize == 6
AccSize == 3

Comps == 0..(StateSize - 1)
Rows == 0..(AccSize - 1)

Vec6(s) == [c \in Comps |-> s[c + 1]]
Vec3(s) == [r \in Rows |-> s[r + 1]]
Mat36(m) == [r \in Rows |-> [c \in Comps |-> m[r + 1][c + 1]]]
ConstMat36(v) == [r \in Rows |-> [c \in Comps |-> v]]
ZeroVec6 == [c \in Comps |-> 0]
ZeroVec3 == [r \in Rows |-> 0]

\* TUDAT_NAN: the not-a-time sentinel.
TUDAT_NAN == NaN

\* ------------------------------------------------------------------------
\* Inputs the behaviours are drawn from.
\* ------------------------------------------------------------------------
Inst == {"p1", "p2"}

\* Vehicle states handed to the StateAccessor by the propagator.
VehicleStates == { Vec6(<<4, 4, 2, 3, 1, 0>>), Vec6(<<18, 4, 2, 13, 1, 0>>) }

\* Step-size vectors a constructor may be configured with (one has a zero).
StepVectors == { Vec6(<<1, 2, 1, 1, 2, 1>>), Vec6(<<1, 1, 1, 0, 1, 1>>) }

\* Content of the never-initialised 3x6 member before the first update.
UninitialisedBlocks == { ConstMat36(7), ConstMat36(NaN) }

\* Evaluation epochs; update( ) defaults to TUDAT_NAN.
Epochs == {1, TUDAT_NAN}

\* Force models: a = M * state, and drag along -x with airspeed v_x - wind(t).
ForceModels ==
    { [kind |-> "linear", k |-> 0,
       M |-> Mat36(<< <<1, 0, 0, 0, 0, 0>>,
                      <<0, 1, 0, 0, 0, 0>>,
                      <<0, 0, 1, 0, 0, 0>> >>)],
      [kind |-> "linear", k |-> 0,
       M |-> Mat36(<< <<2, 0, 0, 1, 0, 0>>,
                      <<0, 0, 0, 0, 3, 0>>,
                      <<0, 1, 0, 0, 0, 0 - 1>> >>)],
      [kind |-> "drag", k |-> 1, M |-> ConstMat36(0)] }

Bodies == {"Vehicle", "Earth", "Moon"}
AcceleratedBodyName == "Vehicle"
AcceleratingBodyName == "Earth"

VARIABLES
    bodyState,          \* StateAccessor: the vehicle's Cartesian state
    forceModel,         \* which ForceModel the run uses
    condTime, cond,     \* ConditionsModel: currentTime_ and cached conditions
    forceTime, acceleration, \* ForceModel: currentTime_ and cached acceleration
    status,             \* per instance: "absent", "live", "failed"
    acceleratedBody_, acceleratingBody_,
    bodyStatePerturbations_,
    currentAccelerationStatePartials_,
    pc,                 \* per instance: position inside update
    i,                  \* loop index of update
    currentTime,        \* argument of the running / last update
    nominalState, perturbedState,
    upperturbedAcceleration, downperturbedAcceleration,
    trace,              \* collaborator calls of the running / last update
    partialAtEntry,     \* cache content when the running / last update began
    previous,           \* arguments of the update before the last one
    partialMatrix,      \* the estimator's output block (held or not)
    startAt,            \* ( startRow, startColumn ) it accumulates at
    calls,              \* accessor calls made on the held block, with the
                        \* block content before each
    ret                 \* result of the last lookup / query / function call

envVars == <<bodyState, forceModel, condTime, cond, forceTime, acceleration>>
objVars == <<status, acceleratedBody_, acceleratingBody_,
             bodyStatePerturbations_, currentAccelerationStatePartials_>>
updVars == <<pc, i, currentTime, nominalState, perturbedState,
             upperturbedAcceleration, downperturbedAcceleration,
             trace, partialAtEntry, previous>>
bufVars == <<partialMatrix, startAt, calls>>
vars == <<envVars, objVars, updVars, bufVars, ret>>

\* ------------------------------------------------------------------------
\* Collaborators (FlightConditions, AerodynamicAcceleration, the state
\* functions of the vehicle).
\* ------------------------------------------------------------------------

\* What the ConditionsModel derives from the vehicle state at an epoch.
FlightConditionsAt(s, t) == [state |-> s, airspeed |-> FSub(s[3], t)]

RECURSIVE DotFrom(_, _, _)
DotFrom(row, s, c) ==
    IF c = StateSize THEN 0
    ELSE FAdd(FMul(row[c], s[c]), DotFrom(row, s, c + 1))

\* What the ForceModel computes from the conditions it is bound to.
AccelerationFrom(fm, fc) ==
    IF fm.kind = "linear"
    THEN [r \in Rows |-> DotFrom(fm.M[r], fc.state, 0)]
    ELSE [r \in Rows |->
            IF r = 0 THEN FNeg(FMul(fm.k, FMul(fc.airspeed, fc.airspeed)))
            ELSE 0]

\* The cached time decides whether an update call recomputes.
MustRecompute(cachedTime, t) == ~FEq(cachedTime, t)

Call(op, t, v) == [op |-> op, time |-> t, vec |-> v]

\* What a lookup, a query or a returned function hands back to the caller.
Result(op, inst, a1, a2, threw, error, value, fn, columns, out) ==
    [op |-> op, inst |-> inst, a1 |-> a1, a2 |-> a2, threw |-> threw,
     error |-> error, value |-> value, fn |-> fn, columns |-> columns,
     out |-> out]
NoResult == Result("none", "", "", "", FALSE, "", FALSE, "empty", 0, ZeroVec3)

\* ------------------------------------------------------------------------
\* AerodynamicAccelerationPartial::update, one step per collaborator call.
\* ------------------------------------------------------------------------
Idle == [at |-> "idle", pass |-> "nominal"]
At(p, a) == pc[p].at = a
NoUpdateInFlight == \A q \in Inst : pc[q] = Idle
\* An error that escaped update ends the estimation run.
RunContinues == \A q \in Inst : status[q] # "aborted"

\* (mutant) the reset hooks are handed the evaluation epoch itself.
ResetTimeArgumentIsEpoch(t) == t

\* The time the reset hooks are called with.
ResetTimeArgument(t) == TUDAT_NAN

\* perturbedState = nominalState; perturbedState( i ) +/-= h( i )
PerturbedUp(nom, h, c) == [nom EXCEPT ![c] = FAdd(@, h[c])]
PerturbedDown(nom, h, c) == [nom EXCEPT ![c] = FSub(@, h[c])]

\* (mutant) the last perturbed state is written back.
StateToRestoreIsPerturbed(nom, pert) == pert

\* The state written back after the loop.
StateToRestore(nom, pert) == nom

\* (mutant) the difference is divided by h_i, not by 2 h_i.
CentralDifferenceOverStep(up, down, h) ==
    [r \in Rows |-> FDiv(FSub(up[r], down[r]), h)]

\* ( up - down ) / ( 2.0 * h_i ), per acceleration component.
CentralDifference(up, down, h) ==
    [r \in Rows |-> FDiv(FSub(up[r], down[r]), FMul(2, h))]

\* (mutant) the column is accumulated onto the cached one.
WithColumnAccumulated(m, c, col) ==
    [r \in Rows |-> [m[r] EXCEPT ![c] = FAdd(@, col[r])]]

\* block( 0, i, 3, 1 ) = column
WithColumn(m, c, col) == [r \in Rows |-> [m[r] EXCEPT ![c] = col[r]]]

\* (mutant) the loop leaves out the last state component.
LoopStopsEarly(k) == k < StateSize - 1

\* for( int i = 0; i < 6; i++ )
LoopContinues(k) == k < StateSize

\* (mutant) the next perturbation is applied to the last perturbed state.
PerturbationBaseIsPrevious(nom, pert) == pert

\* perturbedState = nominalState, at the head of every evaluation.
PerturbationBase(nom, pert) == nom

\* (mutant) the nominal state is written in every pass.
StateToSetAlwaysNominal(p) == nominalState[p]

\* The vector handed to vehicleStateSetFunction_ in the current pass.
StateToSet(p) ==
    IF pc[p].pass = "nominal"
    THEN StateToRestore(nominalState[p], perturbedState[p])
    ELSE perturbedState[p]

Log(p, e) == trace' = [trace EXCEPT ![p] = Append(@, e)]

UpdateBegin(p, t) ==
    /\ status[p] = "live"
    /\ pc[p] = Idle
    /\ partialMatrix = <<>>
    /\ currentTime' = [currentTime EXCEPT ![p] = t]
    /\ nominalState' = [nominalState EXCEPT ![p] = bodyState]
    /\ perturbedState' = [perturbedState EXCEPT ![p] =
            PerturbedUp(bodyState, bodyStatePerturbations_[p], 0)]
    /\ i' = [i EXCEPT ![p] = 0]
    /\ pc' = [pc EXCEPT ![p] = [at |-> "resetC", pass |-> "up"]]
    /\ trace' = [trace EXCEPT ![p] = <<Call("getState", 0, bodyState)>>]
    /\ partialAtEntry' = [partialAtEntry EXCEPT ![p] =
            currentAccelerationStatePartials_[p]]
    /\ previous' = [previous EXCEPT ![p] =
            [valid |-> trace[p] # <<>>, time |-> currentTime[p],
             nominal |-> nominalState[p]]]
    /\ ret' = NoResult
    /\ UNCHANGED <<envVars, objVars, bufVars,
                   upperturbedAcceleration, downperturbedAcceleration>>

ResetConditions(p) ==
    /\ At(p, "resetC")
    /\ condTime' = ResetTimeArgument(currentTime[p])
    /\ pc' = [pc EXCEPT ![p].at = "resetF"]
    /\ Log(p, Call("resetCurrentTime", ResetTimeArgument(currentTime[p]), ZeroVec6))
    /\ UNCHANGED <<bodyState, forceModel, cond, forceTime, acceleration,
                   objVars, bufVars, ret, i, currentTime, nominalState,
                   perturbedState, upperturbedAcceleration,
                   downperturbedAcceleration, partialAtEntry, previous>>

ResetForce(p) ==
    /\ At(p, "resetF")
    /\ forceTime' = ResetTimeArgument(currentTime[p])
    /\ pc' = [pc EXCEPT ![p].at = "set"]
    /\ Log(p, Call("resetTime", ResetTimeArgument(currentTime[p]), ZeroVec6))
    /\ UNCHANGED <<bodyState, forceModel, condTime, cond, acceleration,
                   objVars, bufVars, ret, i, currentTime, nominalState,
                   perturbedState, upperturbedAcceleration,
                   downperturbedAcceleration, partialAtEntry, previous>>

SetState(p) ==
    /\ At(p, "set")
    /\ bodyState' = StateToSet(p)
    /\ pc' = [pc EXCEPT ![p].at = "updC"]
    /\ Log(p, Call("setState", 0, StateToSet(p)))
    /\ UNCHANGED <<forceModel, condTime, cond, forceTime, acceleration,
                   objVars, bufVars, ret, i, currentTime, nominalState,
                   perturbedState, upperturbedAcceleration,
                   downperturbedAcceleration, partialAtEntry, previous>>

UpdateConditions(p) ==
    /\ At(p, "updC")
    /\ IF MustRecompute(condTime, currentTime[p])
       THEN /\ cond' = FlightConditionsAt(bodyState, currentTime[p])
            /\ condTime' = currentTime[p]
       ELSE UNCHANGED <<cond, condTime>>
    /\ pc' = [pc EXCEPT ![p].at = "updF"]
    /\ Log(p, Call("updateConditions", currentTime[p], ZeroVec6))
    /\ UNCHANGED <<bodyState, forceModel, forceTime, acceleration,
                   objVars, bufVars, ret, i, currentTime, nominalState,
                   perturbedState, upperturbedAcceleration,
                   downperturbedAcceleration, partialAtEntry, previous>>

\* updateMembers of the last pass is the last statement of update.
UpdateMembers(p) ==
    /\ At(p, "updF")
    /\ IF MustRecompute(forceTime, currentTime[p])
       THEN /\ acceleration' = AccelerationFrom(forceModel, cond)
            /\ forceTime' = currentTime[p]
       ELSE UNCHANGED <<acceleration, forceTime>>
    /\ Log(p, Call("updateMembers", currentTime[p], ZeroVec6))
    /\ IF pc[p].pass = "nominal"
       THEN /\ pc' = [pc EXCEPT ![p] = Idle]
            /\ i' = [i EXCEPT ![p] = 0]
            /\ perturbedState' = [perturbedState EXCEPT ![p] = ZeroVec6]
            /\ upperturbedAcceleration' =
                   [upperturbedAcceleration EXCEPT ![p] = ZeroVec3]
            /\ downperturbedAcceleration' =
                   [downperturbedAcceleration EXCEPT ![p] = ZeroVec3]
       ELSE /\ pc' = [pc EXCEPT ![p].at = "get"]
            /\ UNCHANGED <<i, perturbedState, upperturbedAcceleration,
                           downperturbedAcceleration>>
    /\ UNCHANGED <<bodyState, forceModel, condTime, cond, objVars, bufVars,
                   ret, currentTime, nominalState, partialAtEntry, previous>>

GetUpperturbed(p) ==
    /\ At(p, "get") /\ pc[p].pass = "up"
    /\ upperturbedAcceleration' =
           [upperturbedAcceleration EXCEPT ![p] = acceleration]
    /\ perturbedState' = [perturbedState EXCEPT ![p] =
           PerturbedDown(PerturbationBase(nominalState[p], perturbedState[p]),
                         bodyStatePerturbations_[p], i[p])]
    /\ pc' = [pc EXCEPT ![p] = [at |-> "resetC", pass |-> "down"]]
    /\ Log(p, Call("getAcceleration", 0, ZeroVec6))
    /\ UNCHANGED <<envVars, objVars, bufVars, ret, i, currentTime,
                   nominalState, downperturbedAcceleration, partialAtEntry,
                   previous>>

GetDownperturbed(p) ==
    /\ At(p, "get") /\ pc[p].pass = "down"
    /\ downperturbedAcceleration' =
           [downperturbedAcceleration EXCEPT ![p] = acceleration]
    /\ currentAccelerationStatePartials_' =
           [currentAccelerationStatePartials_ EXCEPT ![p] =
               WithColumn(@, i[p],
                   CentralDifference(upperturbedAcceleration[p], acceleration,
                                     bodyStatePerturbations_[p][i[p]]))]
    /\ i' = [i EXCEPT ![p] = @ + 1]
    /\ IF LoopContinues(i[p] + 1)
       THEN /\ perturbedState' = [perturbedState EXCEPT ![p] =
                   PerturbedUp(PerturbationBase(nominalState[p],
                                                perturbedState[p]),
                               bodyStatePerturbations_[p], i[p] + 1)]
            /\ pc' = [pc EXCEPT ![p] = [at |-> "resetC", pass |-> "up"]]
       ELSE /\ UNCHANGED perturbedState
            /\ pc' = [pc EXCEPT ![p] = [at |-> "resetC", pass |-> "nominal"]]
    /\ Log(p, Call("getAcceleration", 0, ZeroVec6))
    /\ UNCHANGED <<envVars, status, acceleratedBody_, acceleratingBody_,
                   bodyStatePerturbations_, bufVars, ret, currentTime,
                   nominalState, upperturbedAcceleration, partialAtEntry,
                   previous>>

\* update has no handler and no scope guard around its collaborator calls:
\* an exception raised by one of them leaves update at that statement.  The
\* run is aborted by the error; the partial object is not used again.
CollaboratorCalls == {"set", "updC", "updF", "get"}

Raise(p) ==
    /\ pc[p].at \in CollaboratorCalls
    /\ pc' = [pc EXCEPT ![p] = Idle]
    /\ status' = [status EXCEPT ![p] = "aborted"]
    /\ Log(p, Call("raise", 0, ZeroVec6))
    /\ ret' = Result("update", p, pc[p].at, pc[p].pass, TRUE,
                     "collaborator error", FALSE, "empty", 0, ZeroVec3)
    /\ UNCHANGED <<envVars, acceleratedBody_, acceleratingBody_,
                   bodyStatePerturbations_, currentAccelerationStatePartials_,
                   bufVars, i, currentTime, nominalState, perturbedState,
                   upperturbedAcceleration, downperturbedAcceleration,
                   partialAtEntry, previous>>

UpdateStep(p) ==
    \/ ResetConditions(p)
    \/ ResetForce(p)
    \/ SetState(p)
    \/ UpdateConditions(p)
    \/ UpdateMembers(p)
    \/ GetUpperturbed(p)
    \/ GetDownperturbed(p)

\* ------------------------------------------------------------------------
\* Construction.  The constructor is declared only; the step sizes it
\* installs are validated as the design prescribes, and the 3x6 member is
\* left with whatever the memory holds.
\* ------------------------------------------------------------------------
\* (mutant) no validation of the step sizes.
ValidStepSizesUnchecked(h) == TRUE

ValidStepSizes(h) == \A c \in Comps : h[c] # 0

Construct(p, h, garbage) ==
    /\ status[p] = "absent"
    /\ NoUpdateInFlight
    /\ partialMatrix = <<>>
    /\ IF ValidStepSizes(h)
       THEN /\ status' = [status EXCEPT ![p] = "live"]
            /\ ret' = NoResult
       ELSE /\ status' = [status EXCEPT ![p] = "failed"]
            /\ ret' = Result("construct", p, "", "", TRUE,
                             "InvalidConfiguration", FALSE, "empty", 0,
                             ZeroVec3)
    /\ bodyStatePerturbations_' = [bodyStatePerturbations_ EXCEPT ![p] = h]
    /\ currentAccelerationStatePartials_' =
           [currentAccelerationStatePartials_ EXCEPT ![p] = garbage]
    /\ acceleratedBody_' = [acceleratedBody_ EXCEPT ![p] = AcceleratedBodyName]
    /\ acceleratingBody_' =
           [acceleratingBody_ EXCEPT ![p] = AcceleratingBodyName]
    /\ UNCHANGED <<envVars, updVars, bufVars>>

\* The propagator moves the vehicle between two calls on the partial.
SetBodyState(s) ==
    /\ NoUpdateInFlight
    /\ RunContinues
    /\ partialMatrix = <<>>
    /\ s # bodyState
    /\ bodyState' = s
    /\ ret' = NoResult
    /\ UNCHANGED <<forceModel, condTime, cond, forceTime, acceleration,
                   objVars, updVars, bufVars>>

\* ------------------------------------------------------------------------
\* The four accessors on the estimator's output block.
\* ------------------------------------------------------------------------
BlockSize == 3
OutSize == BlockSize + 1
OutIdx == 0..(OutSize - 1)
\* ( startRow, startColumn ) pairs the estimator uses; the block must fit.
Offsets == { <<0, OutSize - BlockSize>>, <<OutSize - BlockSize, 0>> }
ConstBlock(v) == [r \in OutIdx |-> [c \in OutIdx |-> v]]
InitialBlocks == { ConstBlock(0), ConstBlock(18) }
MaxCalls == 2

InRegion(r, c, r0, c0) ==
    r >= r0 /\ r < r0 + BlockSize /\ c >= c0 /\ c < c0 + BlockSize

\* partialMatrix.block( r0, c0, 3, 3 ) += m.block( 0, col0, 3, 3 )
PlusAssign(buf, m, col0, r0, c0) ==
    [r \in OutIdx |-> [c \in OutIdx |->
        IF InRegion(r, c, r0, c0)
        THEN FAdd(buf[r][c], m[r - r0][col0 + (c - c0)])
        ELSE buf[r][c]]]

\* partialMatrix.block( r0, c0, 3, 3 ) -= m.block( 0, col0, 3, 3 )
MinusAssign(buf, m, col0, r0, c0) ==
    [r \in OutIdx |-> [c \in OutIdx |->
        IF InRegion(r, c, r0, c0)
        THEN FSub(buf[r][c], m[r - r0][col0 + (c - c0)])
        ELSE buf[r][c]]]

\* (mutant) the block is assigned, not accumulated.
wrtPositionOfAcceleratedBodyOverwrites(buf, m, addContribution, startRow, startColumn) ==
    [r \in OutIdx |-> [c \in OutIdx |->
        IF InRegion(r, c, startRow, startColumn)
        THEN IF addContribution
             THEN m[r - startRow][c - startColumn]
             ELSE FNeg(m[r - startRow][c - startColumn])
        ELSE buf[r][c]]]

wrtPositionOfAcceleratedBody(buf, m, addContribution, startRow, startColumn) ==
    IF addContribution THEN PlusAssign(buf, m, 0, startRow, startColumn)
    ELSE MinusAssign(buf, m, 0, startRow, startColumn)

\* (mutant) the flag is ignored: the block is always added.
wrtVelocityOfAcceleratedBodyAlwaysAdds(buf, m, addContribution, startRow, startColumn) ==
    PlusAssign(buf, m, 3, startRow, startColumn)

wrtVelocityOfAcceleratedBody(buf, m, addContribution, startRow, startColumn) ==
    IF addContribution THEN PlusAssign(buf, m, 3, startRow, startColumn)
    ELSE MinusAssign(buf, m, 3, startRow, startColumn)

\* (mutant) the accelerating body gets the sign of the accelerated body.
wrtPositionOfAcceleratingBodyUnnegated(buf, m, addContribution, startRow, startColumn) ==
    IF addContribution THEN PlusAssign(buf, m, 0, startRow, startColumn)
    ELSE MinusAssign(buf, m, 0, startRow, startColumn)

wrtPositionOfAcceleratingBody(buf, m, addContribution, startRow, startColumn) ==
    IF addContribution THEN MinusAssign(buf, m, 0, startRow, startColumn)
    ELSE PlusAssign(buf, m, 0, startRow, startColumn)

wrtVelocityOfAcceleratingBody(buf, m, addContribution, startRow, startColumn) ==
    IF addContribution THEN MinusAssign(buf, m, 3, startRow, startColumn)
    ELSE PlusAssign(buf, m, 3, startRow, startColumn)

Accessors == {"wrtPositionOfAcceleratedBody", "wrtVelocityOfAcceleratedBody",
              "wrtPositionOfAcceleratingBody", "wrtVelocityOfAcceleratingBody"}

Apply(name, buf, m, add, r0, c0) ==
    CASE name = "wrtPositionOfAcceleratedBody" ->
            wrtPositionOfAcceleratedBody(buf, m, add, r0, c0)
      [] name = "wrtVelocityOfAcceleratedBody" ->
            wrtVelocityOfAcceleratedBody(buf, m, add, r0, c0)
      [] name = "wrtPositionOfAcceleratingBody" ->
            wrtPositionOfAcceleratingBody(buf, m, add, r0, c0)
      [] OTHER ->
            wrtVelocityOfAcceleratingBody(buf, m, add, r0, c0)

\* The estimator takes a block to accumulate into at some offsets, and lets
\* it go.
NewBlock(b, o) ==
    /\ NoUpdateInFlight
    /\ RunContinues
    /\ partialMatrix = <<>>
    /\ partialMatrix' = b
    /\ startAt' = o
    /\ calls' = <<>>
    /\ ret' = NoResult
    /\ UNCHANGED <<envVars, objVars, updVars>>

ReleaseBlock ==
    /\ partialMatrix # <<>>
    /\ partialMatrix' = <<>>
    /\ startAt' = <<0, 0>>
    /\ calls' = <<>>
    /\ ret' = NoResult
    /\ UNCHANGED <<envVars, objVars, updVars>>

\* (mutant) the operands are swapped: the cached block receives the sum.
CallAccessorIntoCache(p, name, add, r0, c0) ==
    /\ status[p] = "live"
    /\ NoUpdateInFlight
    /\ partialMatrix # <<>>
    /\ Len(calls) < MaxCalls
    /\ currentAccelerationStatePartials_' =
           [currentAccelerationStatePartials_ EXCEPT ![p] =
               [r \in Rows |-> [c \in Comps |->
                   IF c < BlockSize
                   THEN FAdd(@[r][c], partialMatrix[r0 + r][c0 + c])
                   ELSE @[r][c]]]]
    /\ calls' = Append(calls, [inst |-> p, name |-> name, add |-> add,
                               row |-> r0, col |-> c0,
                               before |-> partialMatrix])
    /\ ret' = NoResult
    /\ UNCHANGED <<envVars, status, acceleratedBody_, acceleratingBody_,
                   bodyStatePerturbations_, updVars, partialMatrix, startAt>>

CallAccessor(p, name, add, r0, c0) ==
    /\ status[p] = "live"
    /\ NoUpdateInFlight
    /\ partialMatrix # <<>>
    /\ Len(calls) < MaxCalls
    /\ partialMatrix' = Apply(name, partialMatrix,
                              currentAccelerationStatePartials_[p], add, r0, c0)
    /\ calls' = Append(calls, [inst |-> p, name |-> name, add |-> add,
                               row |-> r0, col |-> c0,
                               before |-> partialMatrix])
    /\ ret' = NoResult
    /\ UNCHANGED <<envVars, objVars, updVars, startAt>>

\* ------------------------------------------------------------------------
\* Lookups and queries.
\* ------------------------------------------------------------------------
ParameterKinds == {"constant_drag_coefficient", "gravitational_parameter",
                   "radiation_pressure_coefficient"}
VectorParameterKinds == {"spherical_harmonics_cosine_coefficient_block",
                         "constant_drag_coefficient"}
IntegratedStateTypes == {"transational_state", "body_mass_state",
                         "custom_state"}
DragPartialFunction == "computeAccelerationPartialWrtCurrentDragCoefficient"

\* (mutant) the parameter's body is matched against the accelerating body.
ScalarParameterPartialOfAcceleratingBody(accelerated, accelerating, kind, body) ==
    IF kind = "constant_drag_coefficient" /\ body = accelerating
    THEN [fn |-> "computeAccelerationPartialWrtCurrentDragCoefficient",
          columns |-> 1]
    ELSE [fn |-> "empty", columns |-> 0]

\* getParameterPartialFunction( EstimatableParameter< double > )
ScalarParameterPartial(accelerated, accelerating, kind, body) ==
    IF kind = "constant_drag_coefficient" /\ body = accelerated
    THEN [fn |-> DragPartialFunction, columns |-> 1]
    ELSE [fn |-> "empty", columns |-> 0]

\* (mutant) the vector lookup applies the rule of the scalar lookup.
VectorParameterPartialLikeScalar(accelerated, accelerating, kind, body) ==
    IF kind = "constant_drag_coefficient" /\ body = accelerated
    THEN [fn |-> "computeAccelerationPartialWrtCurrentDragCoefficient",
          columns |-> 1]
    ELSE [fn |-> "empty", columns |-> 0]

\* getParameterPartialFunction( EstimatableParameter< Eigen::VectorXd > )
VectorParameterPartial(accelerated, accelerating, kind, body) ==
    [fn |-> "empty", columns |-> 0]

\* (mutant) only the accelerating body is guarded.
DependencyQueryOfAcceleratingBodyOnly(accelerated, accelerating, first, stateType) ==
    IF first = accelerating /\ stateType = "body_mass_state"
    THEN [threw |-> TRUE, value |-> FALSE,
          error |-> "Warning, dependency of central gravity on body masses not yet implemented"]
    ELSE [threw |-> FALSE, value |-> FALSE, error |-> ""]

\* isStateDerivativeDependentOnIntegratedNonTranslationalState
DependencyQuery(accelerated, accelerating, first, stateType) ==
    IF (first = accelerating \/ first = accelerated)
       /\ stateType = "body_mass_state"
    THEN [threw |-> TRUE, value |-> FALSE,
          error |-> "Warning, dependency of central gravity on body masses not yet implemented"]
    ELSE [threw |-> FALSE, value |-> FALSE, error |-> ""]

\* 0.5 * x: scaling by a power of two, the same number as x / 2.
Half(x) == FDiv(x, 2)

\* computeAccelerationPartialWrtCurrentDragCoefficient: the x axis of the
\* aerodynamic frame times 0.5 * density * airspeed^2 * reference area, read
\* from the conditions as cached (fixed attitude, density 2, area 1).
DragCoefficientPartial(fc) ==
    LET q == FMul(FMul(FMul(Half(2), fc.airspeed), fc.airspeed), 1)
    IN  [r \in Rows |-> IF r = 0 THEN q ELSE 0]

Quiescent(p) ==
    /\ status[p] = "live"
    /\ NoUpdateInFlight
    /\ partialMatrix = <<>>

GetScalarParameterPartialFunction(p, kind, body) ==
    /\ Quiescent(p)
    /\ LET r == ScalarParameterPartial(acceleratedBody_[p],
                                       acceleratingBody_[p], kind, body)
       IN  ret' = Result("getParameterPartialFunction", p, kind, body,
                         FALSE, "", FALSE, r.fn, r.columns, ZeroVec3)
    /\ UNCHANGED <<envVars, objVars, updVars, bufVars>>

GetVectorParameterPartialFunction(p, kind, body) ==
    /\ Quiescent(p)
    /\ LET r == VectorParameterPartial(acceleratedBody_[p],
                                       acceleratingBody_[p], kind, body)
       IN  ret' = Result("getVectorParameterPartialFunction", p, kind, body,
                         FALSE, "", FALSE, r.fn, r.columns, ZeroVec3)
    /\ UNCHANGED <<envVars, objVars, updVars, bufVars>>

IsStateDerivativeDependent(p, first, stateType) ==
    /\ Quiescent(p)
    /\ LET r == DependencyQuery(acceleratedBody_[p], acceleratingBody_[p],
                                first, stateType)
       IN  ret' = Result("isStateDerivativeDependent", p, first, stateType,
                         r.threw, r.error, r.value, "empty", 0, ZeroVec3)
    /\ UNCHANGED <<envVars, objVars, updVars, bufVars>>

\* The estimator invokes the function a lookup has just returned.
CallPartialFunction(p) ==
    /\ Quiescent(p)
    /\ ret.fn = DragPartialFunction
    /\ ret.inst = p
    /\ ret' = Result("partialFunction", p, "", "", FALSE, "", FALSE, "empty",
                     0, DragCoefficientPartial(cond))
    /\ UNCHANGED <<envVars, objVars, updVars, bufVars>>

\* ------------------------------------------------------------------------
\* Specification: one partial object, driven by a single-threaded estimator.
\* ------------------------------------------------------------------------
Init ==
    /\ bodyState \in VehicleStates
    /\ forceModel \in ForceModels
    /\ condTime = TUDAT_NAN
    /\ cond = FlightConditionsAt(ZeroVec6, 0)
    /\ forceTime = TUDAT_NAN
    /\ acceleration = ZeroVec3
    /\ status = [p \in Inst |-> "absent"]
    /\ acceleratedBody_ = [p \in Inst |-> ""]
    /\ acceleratingBody_ = [p \in Inst |-> ""]
    /\ bodyStatePerturbations_ = [p \in Inst |-> ZeroVec6]
    /\ currentAccelerationStatePartials_ = [p \in Inst |-> ConstMat36(0)]
    /\ pc = [p \in Inst |-> Idle]
    /\ i = [p \in Inst |-> 0]
    /\ currentTime = [p \in Inst |-> 0]
    /\ nominalState = [p \in Inst |-> ZeroVec6]
    /\ perturbedState = [p \in Inst |-> ZeroVec6]
    /\ upperturbedAcceleration = [p \in Inst |-> ZeroVec3]
    /\ downperturbedAcceleration = [p \in Inst |-> ZeroVec3]
    /\ trace = [p \in Inst |-> <<>>]
    /\ partialAtEntry = [p \in Inst |-> ConstMat36(0)]
    /\ previous = [p \in Inst |->
                     [valid |-> FALSE, time |-> 0, nominal |-> ZeroVec6]]
    /\ partialMatrix = <<>>
    /\ startAt = <<0, 0>>
    /\ calls = <<>>
    /\ ret = NoResult

Driven == {"p1"}

Next ==
    \/ \E p \in Driven, h \in StepVectors, g \in UninitialisedBlocks :
           Construct(p, h, g)
    \/ \E s \in VehicleStates : SetBodyState(s)
    \/ \E p \in Driven, t \in Epochs : NoUpdateInFlight /\ UpdateBegin(p, t)
    \/ \E p \in Driven : UpdateStep(p)
    \/ \E p \in Driven : Raise(p)
    \/ \E b \in InitialBlocks, o \in Offsets : NewBlock(b, o)
    \/ ReleaseBlock
    \/ \E p \in Driven, name \in Accessors, add \in BOOLEAN :
           CallAccessor(p, name, add, startAt[1], startAt[2])
    \/ \E p \in Driven, kind \in ParameterKinds, body \in Bodies :
           GetScalarParameterPartialFunction(p, kind, body)
    \/ \E p \in Driven, kind \in VectorParameterKinds, body \in Bodies :
           GetVectorParameterPartialFunction(p, kind, body)
    \/ \E p \in Driven, first \in Bodies, st \in IntegratedStateTypes :
           IsStateDerivativeDependent(p, first, st)
    \/ \E p \in Driven : CallPartialFunction(p)

Spec == Init /\ [][Next]_vars

\* ------------------------------------------------------------------------
\* Reading the call trace of an update.
\* ------------------------------------------------------------------------
Indices(tr, op) == {k \in 1..Len(tr) : tr[k].op = op}
Last(tr, op) ==
    IF Indices(tr, op) = {} THEN 0
    ELSE CHOOSE k \in Indices(tr, op) : \A j \in Indices(tr, op) : j <= k
Returns(p) == pc[p] # Idle /\ pc'[p] = Idle /\ status'[p] = "live"
HasUpdated(p) == pc[p] = Idle /\ trace[p] # <<>> /\ status[p] = "live"
EntryState(p) == trace[p][1].vec
PerturbedWrites(p) ==
    {k \in Indices(trace[p], "setState") : trace[p][k].vec # EntryState(p)}

\* The acceleration the ForceModel reports once the state is s and both
\* models have been updated at epoch t.
ReportedAcceleration(fm, s, t) == AccelerationFrom(fm, FlightConditionsAt(s, t))

\* ------------------------------------------------------------------------
\* C1.  When update returns, the state held by the StateAccessor, which is
\* the last value handed to vehicleStateSetFunction_, is exactly the state
\* vehicleStateGetFunction_ returned when that update call began.
\* ------------------------------------------------------------------------
C1_StateRestoredOnReturn ==
    [][\A p \in Inst : Returns(p) =>
          /\ bodyState' = trace'[p][1].vec
          /\ trace'[p][1].op = "getState"
          /\ trace'[p][Last(trace'[p], "setState")].vec = trace'[p][1].vec]_vars

\* An update has returned after writing perturbed states, and the vehicle
\* state is the one it read on entry.
C1_Witness ==
    \E p \in Inst :
        /\ HasUpdated(p)
        /\ PerturbedWrites(p) # {}
        /\ bodyState = EntryState(p)

\* ------------------------------------------------------------------------
\* C2.  When update returns, both models cache what they compute from the
\* nominal state at currentTime: the last updateConditions and the last
\* updateMembers come after the last setState, in that order, the last
\* setState writes the nominal state, and neither cache holds a value
\* computed from a perturbed state.
\* ------------------------------------------------------------------------
C2_NominalCachesOnReturn ==
    [][\A p \in Inst : Returns(p) =>
          LET tr == trace'[p]
              nom == tr[1].vec
              t == currentTime'[p]
          IN  /\ Last(tr, "setState") < Last(tr, "updateConditions")
              /\ Last(tr, "updateConditions") < Last(tr, "updateMembers")
              /\ Last(tr, "updateMembers") = Len(tr)
              /\ tr[Last(tr, "setState")].vec = nom
              /\ cond' = FlightConditionsAt(nom, t)
              /\ acceleration' = ReportedAcceleration(forceModel', nom, t)]_vars

\* After an update at a finite epoch the drag-coefficient partial function
\* is invoked and reads the conditions of the nominal state, although the
\* conditions of perturbed states differ from them.
C2_Witness ==
    \E p \in Inst :
        /\ HasUpdated(p)
        /\ ~IsNaN(currentTime[p])
        /\ bodyState = EntryState(p)
        /\ ret.op = "partialFunction"
        /\ ret.out = DragCoefficientPartial(
                         FlightConditionsAt(EntryState(p), currentTime[p]))
        /\ \E k \in PerturbedWrites(p) :
              DragCoefficientPartial(
                  FlightConditionsAt(trace[p][k].vec, currentTime[p])) # ret.out

\* ------------------------------------------------------------------------
\* C3.  When update returns, the calls it made are such that every
\* updateConditions( currentTime ) is preceded, with
\* no other updateConditions in between, by resetCurrentTime( sentinel ),
\* every updateMembers( currentTime ) likewise by resetTime( sentinel ), every
\* reset carries the not-a-time sentinel, and once update has returned a
\* reset of both models follows the 12th perturbed evaluation.
\* ------------------------------------------------------------------------
ResetBefore(tr, k, update, reset) ==
    \E d \in 1..(k - 1) :
        /\ tr[k - d].op = reset
        /\ IsNaN(tr[k - d].time)
        /\ \A m \in (k - d + 1)..(k - 1) : tr[m].op # update

C3_CachesInvalidatedAroundEvaluations ==
    [][\A p \in Inst : Returns(p) =>
        LET tr == trace'[p] IN
        /\ \A k \in Indices(tr, "updateConditions") :
              /\ tr[k].time = currentTime[p]
              /\ ResetBefore(tr, k, "updateConditions", "resetCurrentTime")
        /\ \A k \in Indices(tr, "updateMembers") :
              /\ tr[k].time = currentTime[p]
              /\ ResetBefore(tr, k, "updateMembers", "resetTime")
        /\ \A k \in Indices(tr, "resetCurrentTime") \cup Indices(tr, "resetTime") :
              IsNaN(tr[k].time)
        /\ Cardinality(Indices(tr, "getAcceleration")) = 2 * StateSize
        /\ Last(tr, "resetCurrentTime") > Last(tr, "getAcceleration")
        /\ Last(tr, "resetTime") > Last(tr, "getAcceleration")
        /\ Cardinality(Indices(tr, "resetCurrentTime")) = 2 * StateSize + 1
        /\ Cardinality(Indices(tr, "resetTime")) = 2 * StateSize + 1]_vars

\* An update at a finite epoch (distinct from the sentinel) has returned.
C3_Witness ==
    \E p \in Inst :
        /\ HasUpdated(p)
        /\ ~IsNaN(currentTime[p])
        /\ Cardinality(Indices(trace[p], "updateConditions")) = 2 * StateSize + 1

\* ------------------------------------------------------------------------
\* C4.  After update, column i of currentStatePartial is
\* ( f( nominal + e_i h_i ) - f( nominal - e_i h_i ) ) / ( 2 h_i ) with f the
\* acceleration the ForceModel reports for a state at currentTime, every
\* operation being a double operation.
\* ------------------------------------------------------------------------
Column(m, c) == [r \in Rows |-> m[r][c]]

ExpectedColumn(fm, nom, h, t, c) ==
    CentralDifference(ReportedAcceleration(fm, PerturbedUp(nom, h, c), t),
                      ReportedAcceleration(fm, PerturbedDown(nom, h, c), t),
                      h[c])

RECURSIVE IntDotFrom(_, _, _)
IntDotFrom(row, s, c) ==
    IF c = StateSize THEN 0 ELSE row[c] * s[c] + IntDotFrom(row, s, c + 1)

\* No product and no partial sum of row . s rounds.
RECURSIVE ExactDotFrom(_, _, _)
ExactDotFrom(row, s, c) ==
    \/ c = StateSize
    \/ /\ Representable(row[c] * s[c])
       /\ Representable(IntDotFrom(row, s, c))
       /\ ExactDotFrom(row, s, c + 1)

\* No operation of column c's difference quotient rounds, for a = M * state.
ExactLinearColumn(M, nom, h, c) ==
    /\ Representable(nom[c] + h[c])
    /\ Representable(nom[c] - h[c])
    /\ Representable(2 * h[c])
    /\ \A r \in Rows :
          /\ ExactDotFrom(M[r], [nom EXCEPT ![c] = @ + h[c]], 0)
          /\ ExactDotFrom(M[r], [nom EXCEPT ![c] = @ - h[c]], 0)
          /\ Representable(2 * h[c] * M[r][c])

\* C4 as amended: the difference quotient in double arithmetic; for a linear
\* model a = M * state column i is column i of M when no operation of that
\* column rounds.
C4_CentralDifferenceColumns ==
    [][\A p \in Inst : Returns(p) =>
        \A c \in Comps :
            /\ Column(currentAccelerationStatePartials_'[p], c) =
                   ExpectedColumn(forceModel, trace'[p][1].vec,
                                  bodyStatePerturbations_[p], currentTime[p], c)
            /\ (forceModel.kind = "linear"
                  /\ ExactLinearColumn(forceModel.M, trace'[p][1].vec,
                                       bodyStatePerturbations_[p], c))
               => Column(currentAccelerationStatePartials_'[p], c) =
                      Column(forceModel.M, c)]_vars

\* C4 as stated: for every linear model the cached block equals M.
C4_LinearBlockEqualsM ==
    [][\A p \in Inst : Returns(p) =>
        /\ \A c \in Comps :
              Column(currentAccelerationStatePartials_'[p], c) =
                  ExpectedColumn(forceModel, trace'[p][1].vec,
                                 bodyStatePerturbations_[p], currentTime[p], c)
        /\ forceModel.kind = "linear" =>
              currentAccelerationStatePartials_'[p] = forceModel.M]_vars

\* An update of a linear model with off-diagonal entries has returned, no
\* operation rounded and the cached block is M.
C4_Witness ==
    \E p \in Inst :
        /\ HasUpdated(p)
        /\ forceModel.kind = "linear"
        /\ forceModel.M[0][3] # 0
        /\ \A c \in Comps : ExactLinearColumn(forceModel.M, nominalState[p],
                                              bodyStatePerturbations_[p], c)
        /\ currentAccelerationStatePartials_[p] = forceModel.M
        /\ partialAtEntry[p] # forceModel.M

\* ------------------------------------------------------------------------
\* C5.  A step-size vector with a zero component is rejected with an
\* InvalidConfiguration error at construction: such an object never becomes
\* usable, never runs update and never produces a partial block.
\* ------------------------------------------------------------------------
HasZeroStep(p) == \E c \in Comps : bodyStatePerturbations_[p][c] = 0

After(k) == IF k = Len(calls) THEN partialMatrix ELSE calls[k + 1].before

\* Calls k and k + 1 are the same call, first adding, then subtracting.
AddThenSubtract(k) ==
    /\ k \in 1..(Len(calls) - 1)
    /\ calls[k].add /\ ~calls[k + 1].add
    /\ calls[k].inst = calls[k + 1].inst
    /\ calls[k].name = calls[k + 1].name
    /\ calls[k].row = calls[k + 1].row
    /\ calls[k].col = calls[k + 1].col

FirstColumn(name) ==
    IF name \in {"wrtPositionOfAcceleratedBody", "wrtPositionOfAcceleratingBody"}
    THEN 0 ELSE 3

\* The entry of currentStatePartial a call combines with block entry (r, c).
CachedEntry(call, r, c) ==
    currentAccelerationStatePartials_[call.inst]
        [r - call.row][FirstColumn(call.name) + (c - call.col)]

CachedBlockFinite(call) ==
    \A r \in Rows, c \in 0..(BlockSize - 1) :
        IsFinite(currentAccelerationStatePartials_[call.inst]
                     [r][FirstColumn(call.name) + c])

\* The first of two calls changed entry (r, c) without rounding or overflow.
ExactFirstStep(k, r, c) ==
    LET x == calls[k].before[r][c]
        v == CachedEntry(calls[k], r, c)
        mid == After(k)[r][c]
    IN  /\ IsFinite(x) /\ IsFinite(v) /\ IsFinite(mid)
        /\ Abs(mid - x) = Abs(v)

\* C6 as amended: the pair restores every entry outside the addressed 3x3
\* region, and every entry inside it whose first sum (or difference) is
\* finite and exact in double arithmetic; a zero-initialised block returns
\* to all zeros when the cached sub-block is finite.
C6_AddThenSubtractRestores ==
    \A k \in 1..(Len(calls) - 1) : AddThenSubtract(k) =>
        /\ \A r \in OutIdx, c \in OutIdx :
              \/ ~InRegion(r, c, calls[k].row, calls[k].col)
              \/ ExactFirstStep(k, r, c)
              => After(k + 1)[r][c] = calls[k].before[r][c]
        /\ (calls[k].before = ConstBlock(0) /\ CachedBlockFinite(calls[k]))
              => After(k + 1) = ConstBlock(0)

\* C6 as stated: the pair restores every block content (here: whenever the
\* accessors are used as documented, after an update, on finite numbers).
C6_AddThenSubtractRestoresAnyBlock ==
    \A k \in 1..(Len(calls) - 1) :
        (AddThenSubtract(k) /\ HasUpdated(calls[k].inst)
            /\ CachedBlockFinite(calls[k]))
        => After(k + 1) = calls[k].before

\* After an update, a nonzero finite sub-block was added to a nonzero block
\* and subtracted again, and the block is back to its content.
C6_Witness ==
    \E k \in 1..(Len(calls) - 1) :
        /\ AddThenSubtract(k)
        /\ HasUpdated(calls[k].inst)
        /\ calls[k].before # ConstBlock(0)
        /\ After(k) # calls[k].before
        /\ \A r \in OutIdx, c \in OutIdx :
              InRegion(r, c, calls[k].row, calls[k].col) => ExactFirstStep(k, r, c)
        /\ After(k + 1) = calls[k].before

\* ------------------------------------------------------------------------
\* C7.  On a zero-initialised block and for the same flag, what an
\* accelerated-body accessor writes is the negation of what the
\* accelerating-body accessor of the same kind writes; with
\* addContribution = true the accelerated-body accessors deliver the raw
\* cached sub-block and the accelerating-body accessors its negation.
\* ------------------------------------------------------------------------
Counterpart(name) ==
    CASE name = "wrtPositionOfAcceleratedBody" -> "wrtPositionOfAcceleratingBody"
      [] name = "wrtVelocityOfAcceleratedBody" -> "wrtVelocityOfAcceleratingBody"
      [] name = "wrtPositionOfAcceleratingBody" -> "wrtPositionOfAcceleratedBody"
      [] OTHER -> "wrtVelocityOfAcceleratedBody"

OfAcceleratedBody(name) ==
    name \in {"wrtPositionOfAcceleratedBody", "wrtVelocityOfAcceleratedBody"}

Negated(buf) == [r \in OutIdx |-> [c \in OutIdx |-> FNeg(buf[r][c])]]

C7_AcceleratingIsNegatedAccelerated ==
    (Len(calls) >= 1 /\ calls[1].before = ConstBlock(0)) =>
        LET call == calls[1]
            m == currentAccelerationStatePartials_[call.inst]
        IN  /\ After(1) = Negated(Apply(Counterpart(call.name), ConstBlock(0),
                                        m, call.add, call.row, call.col))
            /\ call.add =>
                  \A r \in OutIdx, c \in OutIdx :
                      InRegion(r, c, call.row, call.col) =>
                          After(1)[r][c] =
                              IF OfAcceleratedBody(call.name)
                              THEN CachedEntry(call, r, c)
                              ELSE FNeg(CachedEntry(call, r, c))

\* After an update an accelerating-body accessor has written the negation
\* of a sub-block with nonzero entries into a zero block.
C7_Witness ==
    /\ Len(calls) >= 1
    /\ calls[1].before = ConstBlock(0)
    /\ HasUpdated(calls[1].inst)
    /\ calls[1].add
    /\ calls[1].name = "wrtPositionOfAcceleratingBody"
    /\ \E r \in OutIdx, c \in OutIdx :
          /\ InRegion(r, c, calls[1].row, calls[1].col)
          /\ IsFinite(CachedEntry(calls[1], r, c))
          /\ CachedEntry(calls[1], r, c) > 0
          /\ After(1)[r][c] = 0 - CachedEntry(calls[1], r, c)

SameNumber(a, b) == a = b

C10_UpdateIsDeterministic ==
    [][\A p \in Inst : Returns(p) =>
          /\ (previous[p].valid
                /\ SameNumber(previous[p].time, currentTime[p])
                /\ previous[p].nominal = trace'[p][1].vec)
             => currentAccelerationStatePartials_'[p] = partialAtEntry[p]
          /\ \A c \in Comps :
                Column(currentAccelerationStatePartials_'[p], c) =
                    ExpectedColumn(forceModel, trace'[p][1].vec,
                                   bodyStatePerturbations_[p], currentTime[p], c)]_vars

\* A second update with the arguments of the first has returned, with a
\* result that differs from the never-initialised content.
C10_Witness ==
    \E p \in Inst :
        /\ HasUpdated(p)
        /\ previous[p].valid
        /\ SameNumber(previous[p].time, currentTime[p])
        /\ ~IsNaN(currentTime[p])
        /\ previous[p].nominal = nominalState[p]
        /\ currentAccelerationStatePartials_[p] = partialAtEntry[p]
        /\ currentAccelerationStatePartials_[p] \notin UninitialisedBlocks

\* ------------------------------------------------------------------------
\* C11.  An update call, whatever the previous call was, can always take its
\* next step, each step being one more collaborator call, and returns after
\* exactly 13 setState, 13 updateConditions and 13 updateMembers calls and 12
\* getAcceleration reads (78 calls in all): the first 12 evaluations are the
\* plus and the minus perturbation of components 0..5 in turn, the 13th is
\* the nominal state.  A collaborator call that does not return is the one
\* way out of this.
\* ------------------------------------------------------------------------
Count(tr, op) == Cardinality(Indices(tr, op))

\* Index in tr of the n-th call of op.
Nth(tr, op, n) ==
    CHOOSE k \in Indices(tr, op) :
        Cardinality({j \in Indices(tr, op) : j <= k}) = n

\* The state the n-th evaluation of update is made at.
EvaluationState(nom, h, n) ==
    IF n > 2 * StateSize THEN nom
    ELSE IF n % 2 = 1 THEN PerturbedUp(nom, h, (n - 1) \div 2)
    ELSE PerturbedDown(nom, h, (n - 1) \div 2)

RepeatsPrevious(p) ==
    /\ previous[p].valid
    /\ previous[p].time = currentTime[p]
    /\ ~IsNaN(currentTime[p])

\* The statement update( ) is at can be executed: no step waits for anything.
CanStep(p) ==
    /\ pc[p].at \in {"resetC", "resetF", "set", "updC", "updF", "get"}
    /\ pc[p].at = "get" => pc[p].pass \in {"up", "down"}

\* Calls update makes before it returns: getState, 12 evaluations of 6
\* calls, one of 5.
CallsOfUpdate == 1 + 2 * StateSize * 6 + 5

C11_UpdateTerminatesAfterThirteenEvaluations ==
    [][\A p \in Inst :
        /\ pc[p] # Idle =>
              /\ CanStep(p)
              /\ Len(trace[p]) < CallsOfUpdate
              /\ pc'[p] # pc[p] => Len(trace'[p]) = Len(trace[p]) + 1
        /\ Returns(p) =>
            LET tr == trace'[p] IN
            /\ Len(tr) = CallsOfUpdate
            /\ Count(tr, "setState") = 2 * StateSize + 1
            /\ Count(tr, "updateConditions") = 2 * StateSize + 1
            /\ Count(tr, "updateMembers") = 2 * StateSize + 1
            /\ Count(tr, "getAcceleration") = 2 * StateSize
            /\ \A n \in 1..(2 * StateSize + 1) :
                  /\ tr[Nth(tr, "setState", n)].vec =
                         EvaluationState(tr[1].vec, bodyStatePerturbations_[p], n)
                  /\ Nth(tr, "setState", n) < Nth(tr, "updateConditions", n)
                  /\ Nth(tr, "updateConditions", n) < Nth(tr, "updateMembers", n)
                  /\ n <= 2 * StateSize =>
                        /\ Nth(tr, "updateMembers", n) < Nth(tr, "getAcceleration", n)
                        /\ Nth(tr, "getAcceleration", n) < Nth(tr, "setState", n + 1)]_vars

\* An update called with the epoch of the previous update has returned after
\* 13 evaluations.
C11_Witness ==
    \E p \in Inst :
        /\ HasUpdated(p)
        /\ RepeatsPrevious(p)
        /\ previous[p].nominal = EntryState(p)
        /\ Count(trace[p], "setState") = 2 * StateSize + 1
        /\ Count(trace[p], "getAcceleration") = 2 * StateSize

\* ------------------------------------------------------------------------
\* C12.  A call of one of the four accessors or of one of the two parameter
\* lookups, in whatever state the object is, leaves the cached 3x6 block,
\* the vehicle state and both models as they are, makes no collaborator
\* call and raises nothing; and from the return of one update to the start
\* of the next the cached block of a partial does not change.
\* ------------------------------------------------------------------------
AccessorCalled == Len(calls') = Len(calls) + 1
LookupCalled ==
    ret'.op \in {"getParameterPartialFunction",
                 "getVectorParameterPartialFunction"}

C12_ReadsLeaveCacheAndModelsAlone ==
    [][/\ (AccessorCalled \/ LookupCalled) =>
            /\ UNCHANGED <<bodyState, forceModel, condTime, cond, forceTime,
                           acceleration>>
            /\ UNCHANGED currentAccelerationStatePartials_
            /\ UNCHANGED trace
            /\ ~ret'.threw
       /\ \A p \in Inst :
            (pc[p] = Idle /\ pc'[p] = Idle
                /\ status[p] = "live" /\ status'[p] = "live")
            => currentAccelerationStatePartials_'[p] =
                   currentAccelerationStatePartials_[p]]_vars

\* After an update the propagator moved the vehicle, and without a further
\* update an accessor was called on a nonzero block: the cache is still the
\* one of the update.
C12_Witness ==
    \E p \in Inst :
        /\ HasUpdated(p)
        /\ bodyState # EntryState(p)
        /\ Len(calls) > 0
        /\ calls[Len(calls)].inst = p
        /\ calls[Len(calls)].before # ConstBlock(0)
        /\ partialMatrix # calls[Len(calls)].before
        /\ \A c \in Comps :
              Column(currentAccelerationStatePartials_[p], c) =
                  ExpectedColumn(forceModel, EntryState(p),
                                 bodyStatePerturbations_[p], currentTime[p], c)

\* ------------------------------------------------------------------------
\* C13.  The lookup for a vector parameter returns an empty function and 0
\* columns for every parameter kind and every body, and raises nothing.
\* ------------------------------------------------------------------------
C13_VectorLookupIsEmpty ==
    /\ ret.op = "getVectorParameterPartialFunction" =>
          /\ ret.fn = "empty"
          /\ ret.columns = 0
          /\ ~ret.threw
    /\ \A accelerated \in Bodies, accelerating \in Bodies,
          kind \in VectorParameterKinds \cup ParameterKinds, body \in Bodies :
          VectorParameterPartial(accelerated, accelerating, kind, body) =
              [fn |-> "empty", columns |-> 0]

\* The vector lookup was made for the drag coefficient of the accelerated
\* body, the one parameter the scalar lookup answers.
C13_Witness ==
    /\ ret.op = "getVectorParameterPartialFunction"
    /\ ret.a1 = "constant_drag_coefficient"
    /\ ret.a2 = acceleratedBody_[ret.inst]
    /\ ret.columns = 0

\* ------------------------------------------------------------------------
\* C14.  A state component the reported acceleration does not respond to
\* gets a zero column.
\* ------------------------------------------------------------------------
UpReported(p, nom, c) ==
    ReportedAcceleration(forceModel, PerturbedUp(nom, bodyStatePerturbations_[p], c),
                         currentTime[p])
DownReported(p, nom, c) ==
    ReportedAcceleration(forceModel, PerturbedDown(nom, bodyStatePerturbations_[p], c),
                         currentTime[p])

\* f( nominal + e_c h_c ) equals f( nominal - e_c h_c ), as operator== of
\* doubles has it.
Unresponsive(p, nom, c) ==
    \A r \in Rows : FEq(UpReported(p, nom, c)[r], DownReported(p, nom, c)[r])

FiniteVec3(a) == \A r \in Rows : IsFinite(a[r])

\* C14 as amended: when the two accelerations of component c are equal and
\* finite, column c is exactly zero, whatever the (nonzero) step and whatever
\* the cache held; every column, of a component the model responds to or
\* not, is the difference quotient of its own two evaluations.
C14_UnresponsiveColumnsAreZero ==
    [][\A p \in Inst : Returns(p) =>
        \A c \in Comps :
            LET nom == trace'[p][1].vec IN
            /\ (Unresponsive(p, nom, c) /\ FiniteVec3(UpReported(p, nom, c)))
                  => Column(currentAccelerationStatePartials_'[p], c) = ZeroVec3
            /\ Column(currentAccelerationStatePartials_'[p], c) =
                   CentralDifference(UpReported(p, nom, c), DownReported(p, nom, c),
                                     bodyStatePerturbations_[p][c])]_vars

\* C14 as stated: equal accelerations give a zero column.
C14_EqualAccelerationsGiveZeroColumn ==
    [][\A p \in Inst : Returns(p) =>
        \A c \in Comps :
            Unresponsive(p, trace'[p][1].vec, c)
               => Column(currentAccelerationStatePartials_'[p], c) = ZeroVec3]_vars

\* An update of the drag model has returned: the columns of the components
\* it does not respond to are zero although the cache held other numbers,
\* and the column of the along-track velocity is not.
C14_Witness ==
    \E p \in Inst :
        /\ HasUpdated(p)
        /\ forceModel.kind = "drag"
        /\ partialAtEntry[p] # ConstMat36(0)
        /\ \A c \in Comps \ {3} :
              /\ Unresponsive(p, EntryState(p), c)
              /\ FiniteVec3(UpReported(p, EntryState(p), c))
              /\ Column(currentAccelerationStatePartials_[p], c) = ZeroVec3
        /\ ~Unresponsive(p, EntryState(p), 3)
        /\ Column(currentAccelerationStatePartials_[p], 3) # ZeroVec3

\* ------------------------------------------------------------------------
\* C16.  When a collaborator call of a perturbed evaluation raises, the
\* vehicle state is the nominal state of that update at the moment the error
\* reaches the caller.
\* ------------------------------------------------------------------------
RaisedInEvaluation(p) ==
    /\ status[p] = "live" /\ status'[p] = "aborted"
    /\ pc[p].pass \in {"up", "down"}

C16_NominalStateOnError ==
    [][\A p \in Inst : RaisedInEvaluation(p) => bodyState' = trace[p][1].vec]_vars

\* An error has left update and the vehicle holds a perturbed state.
C16_Witness ==
    \E p \in Inst :
        /\ status[p] = "aborted"
        /\ pc[p] = Idle
        /\ ret.threw /\ ret.op = "update" /\ ret.a2 \in {"up", "down"}
        /\ bodyState # trace[p][1].vec
        /\ \E k \in Indices(trace[p], "setState") : trace[p][k].vec = bodyState

\* ------------------------------------------------------------------------
\* C17.  While update runs, the vehicle state is the nominal state or the
\* nominal state with one component perturbed up or down; perturbations do
\* not accumulate, and column c depends on no step size but h_c.
\* ------------------------------------------------------------------------
InFlight(p) == pc[p] # Idle

\* The states one perturbation of the nominal state gives, the sum and the
\* difference being those of doubles.
SinglyPerturbed(nom, h) ==
    {PerturbedUp(nom, h, c) : c \in Comps} \cup
    {PerturbedDown(nom, h, c) : c \in Comps}

\* The same with the offsets exact.
ExactlyOffset(nom, h) ==
    {[nom EXCEPT ![c] = @ + h[c]] : c \in Comps} \cup
    {[nom EXCEPT ![c] = @ - h[c]] : c \in Comps}

OtherSteps == 1..3

\* C17 as amended: the component is nominal_c + h_c or nominal_c - h_c as
\* double arithmetic gives them, the exact offset whenever that is a double.
C17_OnePerturbationAtATime ==
    /\ [](\A p \in Inst : InFlight(p) =>
            /\ nominalState[p] = trace[p][1].vec
            /\ bodyState \in {nominalState[p]} \cup
                   SinglyPerturbed(nominalState[p], bodyStatePerturbations_[p])
            /\ \A c \in Comps :
                  Representable(nominalState[p][c] + bodyStatePerturbations_[p][c])
                  => PerturbedUp(nominalState[p], bodyStatePerturbations_[p], c)[c]
                         = nominalState[p][c] + bodyStatePerturbations_[p][c])
    /\ [][\A p \in Inst : Returns(p) =>
            \A c \in Comps : \A j \in Comps \ {c}, v \in OtherSteps :
                Column(currentAccelerationStatePartials_'[p], c) =
                    ExpectedColumn(forceModel, trace'[p][1].vec,
                                   [bodyStatePerturbations_[p] EXCEPT ![j] = v],
                                   currentTime[p], c)]_vars

\* C17 as stated: the offset is exactly + h_c or - h_c.
C17_OffsetIsExactlyTheStep ==
    \A p \in Inst : InFlight(p) =>
        bodyState \in {nominalState[p]} \cup
            ExactlyOffset(nominalState[p], bodyStatePerturbations_[p])

\* update is at its last perturbed evaluation: the vehicle state differs
\* from the nominal state in component 5 alone, by exactly - h_5.
C17_Witness ==
    \E p \in Inst :
        /\ InFlight(p)
        /\ i[p] = StateSize - 1 /\ pc[p].pass = "down" /\ pc[p].at = "updC"
        /\ bodyState # nominalState[p]
        /\ bodyState = [nominalState[p] EXCEPT
                            ![StateSize - 1] = @ - bodyStatePerturbations_[p][StateSize - 1]]

\* ------------------------------------------------------------------------
\* C18.  Every acceleration update reads for a difference is read right
\* after setState( perturbed ), updateConditions( currentTime ),
\* updateMembers( currentTime ), in this order and with nothing in between,
\* and is the acceleration of the state just written; updateMembers always
\* follows updateConditions directly.
\* ------------------------------------------------------------------------
ReadsAcceleration(p) == pc[p].at = "get" /\ pc'[p].at = "resetC"

C18_ReadAfterRefreshOfWrittenState ==
    [][\A p \in Inst :
        /\ ReadsAcceleration(p) =>
              LET tr == trace[p]
                  n == Len(tr)
              IN  /\ tr[n].op = "updateMembers"
                  /\ tr[n].time = currentTime[p]
                  /\ tr[n - 1].op = "updateConditions"
                  /\ tr[n - 1].time = currentTime[p]
                  /\ tr[n - 2].op = "setState"
                  /\ tr[n - 2].vec = perturbedState[p]
                  /\ tr[n - 2].vec = bodyState
                  /\ acceleration = ReportedAcceleration(forceModel, bodyState,
                                                         currentTime[p])
                  /\ trace'[p][n + 1].op = "getAcceleration"
                  /\ pc[p].pass = "up" =>
                        /\ upperturbedAcceleration'[p] = acceleration
                        /\ perturbedState[p] =
                               PerturbedUp(nominalState[p],
                                           bodyStatePerturbations_[p], i[p])
                  /\ pc[p].pass = "down" =>
                        /\ downperturbedAcceleration'[p] = acceleration
                        /\ perturbedState[p] =
                               PerturbedDown(nominalState[p],
                                             bodyStatePerturbations_[p], i[p])
        /\ Returns(p) =>
              /\ Count(trace'[p], "getAcceleration") = 2 * StateSize
              /\ \A k \in Indices(trace'[p], "updateMembers") :
                    trace'[p][k - 1].op = "updateConditions"]_vars

\* The 12th acceleration has been read: it is the one of the state with
\* component 5 perturbed down, and not the one of the nominal state.
C18_Witness ==
    \E p \in Inst :
        /\ pc[p] = [at |-> "resetC", pass |-> "nominal"]
        /\ Count(trace[p], "getAcceleration") = 2 * StateSize
        /\ bodyState # nominalState[p]
        /\ downperturbedAcceleration[p] =
               ReportedAcceleration(forceModel, bodyState, currentTime[p])
        /\ FiniteVec3(downperturbedAcceleration[p])
        /\ downperturbedAcceleration[p] #
               ReportedAcceleration(forceModel, nominalState[p], currentTime[p])

\* ------------------------------------------------------------------------
\* C20.  An accessor call adds to (or subtracts from) the content the output
\* block has, in the 3x3 region at ( startRow, startColumn ) and nowhere
\* else; the position accessors take columns 0..2 of the cached block, the
\* velocity accessors columns 3..5.
\* ------------------------------------------------------------------------
\* The accessor adds: an accelerated-body accessor told to add, or an
\* accelerating-body accessor told to subtract.
Adds(call) == OfAcceleratedBody(call.name) = call.add

SourceColumn(name) ==
    IF name \in {"wrtPositionOfAcceleratedBody", "wrtPositionOfAcceleratingBody"}
    THEN 0 ELSE BlockSize

Accumulated(call, r, c) ==
    LET v == currentAccelerationStatePartials_[call.inst]
                 [r - call.row][SourceColumn(call.name) + (c - call.col)]
    IN  IF Adds(call) THEN FAdd(call.before[r][c], v)
        ELSE FSub(call.before[r][c], v)

C20_AccessorsAccumulateInTheirRegion ==
    \A k \in 1..Len(calls) :
        \A r \in OutIdx, c \in OutIdx :
            After(k)[r][c] =
                IF InRegion(r, c, calls[k].row, calls[k].col)
                THEN Accumulated(calls[k], r, c)
                ELSE calls[k].before[r][c]

\* After an update whose position and velocity blocks differ, an accessor
\* was called on a block of nonzero numbers: the region holds neither the
\* old content nor the cached block alone.
C20_Witness ==
    \E k \in 1..Len(calls) :
        LET call == calls[k]
            m == currentAccelerationStatePartials_[call.inst]
        IN  /\ HasUpdated(call.inst)
            /\ CachedBlockFinite(call)
            /\ \E r \in Rows, c \in 0..(BlockSize - 1) : m[r][c] # m[r][c + BlockSize]
            /\ call.before # ConstBlock(0)
            /\ \E r \in OutIdx, c \in OutIdx :
                  /\ InRegion(r, c, call.row, call.col)
                  /\ After(k)[r][c] # call.before[r][c]
                  /\ After(k)[r][c] # CachedEntry(call, r, c)
                  /\ After(k)[r][c] # FNeg(CachedEntry(call, r, c))
            /\ \E r \in OutIdx, c \in OutIdx : ~InRegion(r, c, call.row, call.col)

\* ------------------------------------------------------------------------
\* Several partials on one vehicle.  Both instances are bound to the same
\* state functions, FlightConditions and AerodynamicAcceleration; within one
\* evaluation epoch the estimator updates each of them once.
\* ------------------------------------------------------------------------
\* Step sizes the two partials are configured with.
SharedStepSizes ==
    [p \in Inst |-> IF p = "p1" THEN Vec6(<<1, 2, 1, 1, 2, 1>>)
                    ELSE Vec6(<<2, 1, 1, 1, 1, 2>>)]

NotYetUpdated(p) == trace[p] = <<>>

\* The estimator calls update on the partials one after another.
SequentialNext ==
    \/ \E p \in Inst, g \in UninitialisedBlocks :
           Construct(p, SharedStepSizes[p], g)
    \/ \E p \in Inst, t \in Epochs :
           NoUpdateInFlight /\ NotYetUpdated(p) /\ UpdateBegin(p, t)
    \/ \E p \in Inst : UpdateStep(p)

SpecSequential == Init /\ [][SequentialNext]_vars

Others(p) == Inst \ {p}

\* ------------------------------------------------------------------------
\* C15.  Updates of partials sharing the vehicle, made one after another:
\* each reads the nominal state the others read, each caches the block it
\* computes when it is the only partial, none alters the block of another,
\* and the vehicle state after each is the state before the first.
\* ------------------------------------------------------------------------
C15_SequentialUpdatesDoNotInterfere ==
    [][\A p \in Inst : Returns(p) =>
        /\ bodyState' = trace'[p][1].vec
        /\ \A c \in Comps :
              Column(currentAccelerationStatePartials_'[p], c) =
                  ExpectedColumn(forceModel, trace'[p][1].vec,
                                 bodyStatePerturbations_[p], currentTime[p], c)
        /\ \A q \in Others(p) :
              /\ currentAccelerationStatePartials_'[q] =
                     currentAccelerationStatePartials_[q]
              /\ ~NotYetUpdated(q) =>
                    /\ trace[q][1].vec = trace'[p][1].vec
                    /\ \A c \in Comps :
                          Column(currentAccelerationStatePartials_'[q], c) =
                              ExpectedColumn(forceModel, trace[q][1].vec,
                                             bodyStatePerturbations_[q],
                                             currentTime[q], c)]_vars

\* Both partials have updated, with different step sizes and different
\* resulting blocks, and the vehicle state is the one both read on entry.
C15_Witness ==
    /\ \A p \in Inst : HasUpdated(p) /\ bodyState = EntryState(p)
    /\ bodyStatePerturbations_["p1"] # bodyStatePerturbations_["p2"]
    /\ currentAccelerationStatePartials_["p1"] #
           currentAccelerationStatePartials_["p2"]
    /\ \A p \in Inst : \A r \in Rows, c \in Comps :
           IsFinite(currentAccelerationStatePartials_[p][r][c])

\* ------------------------------------------------------------------------
\* Updates of two partials from two threads.  update takes no lock and
\* tests nothing before reading the vehicle state, so the update of the
\* second partial may begin at any statement of the first.  The schedule
\* followed here is the one in which the thread that has just read the
\* state is held until the update that began before it has returned.
\* ------------------------------------------------------------------------
SharedEpoch == 1

\* Every other update in flight has only read the vehicle state so far.
OthersHeld(p) ==
    \A q \in Others(p) : pc[q] = Idle \/ Len(trace[q]) = 1

InterleavedNext ==
    \/ \E p \in Inst, g \in UninitialisedBlocks :
           Construct(p, SharedStepSizes[p], g)
    \/ NotYetUpdated("p1") /\ UpdateBegin("p1", SharedEpoch)
    \/ ~NotYetUpdated("p1") /\ NotYetUpdated("p2")
          /\ UpdateBegin("p2", SharedEpoch)
    \/ \E p \in Inst : OthersHeld(p) /\ UpdateStep(p)

SpecInterleaved == Init /\ [][InterleavedNext]_vars

\* ------------------------------------------------------------------------
\* C19.  An update that begins while the update of another partial has a
\* perturbed state written takes that perturbed state for its nominal
\* state, and restores it when it returns; when it returns last, the
\* vehicle is left with a state that is not the original nominal state.
\* ------------------------------------------------------------------------
Begins(p) == pc[p] = Idle /\ pc'[p] # Idle

C19_InterleavedUpdateCapturesPerturbedState ==
    [][\A p \in Inst :
        /\ Begins(p) =>
              /\ nominalState'[p] = bodyState
              /\ trace'[p] = <<Call("getState", 0, bodyState)>>
              /\ \A q \in Others(p) :
                    (InFlight(q) /\ bodyState # nominalState[q]) =>
                        /\ nominalState'[p] # nominalState[q]
                        /\ nominalState'[p] \in
                               SinglyPerturbed(nominalState[q],
                                               bodyStatePerturbations_[q])
        /\ Returns(p) =>
              /\ bodyState' = nominalState[p]
              /\ \A q \in Others(p) :
                    (HasUpdated(q) /\ nominalState[p] # nominalState[q]
                        /\ Len(trace[q]) = CallsOfUpdate)
                    => bodyState' # nominalState[q]]_vars

\* Both updates have returned; the second began while the first had a
\* perturbed state written, and the vehicle is left with that perturbed
\* state, not with the state the first update read.
C19_Witness ==
    /\ HasUpdated("p1") /\ HasUpdated("p2")
    /\ EntryState("p2") # EntryState("p1")
    /\ EntryState("p2") \in
           SinglyPerturbed(EntryState("p1"), bodyStatePerturbations_["p1"])
    /\ bodyState = EntryState("p2")
    /\ bodyState # EntryState("p1")

=============================================================================
